---- MODULE Spec2Model ----
(***************************************************************************)
(* UpperButtonsComponent of angular-modal-gallery                          *)
(* (src/components/upper-buttons/upper-buttons.component.ts).              *)
(*                                                                         *)
(* JavaScript objects live in `heap`, a function from references (strings) *)
(* to records; a record's DOMAIN is the set of properties the object has,  *)
(* so an absent property is a name outside the DOMAIN.  An array object is *)
(* the record [items |-> <<ref, ...>>].  The component's fields hold       *)
(* references, or `undefined`.                                             *)
(*                                                                         *)
(* call / emitted / thrown / logged / returned describe the step that led  *)
(* to the current state: the call made and what it produced.               *)
(***************************************************************************)
EXTENDS Integers, Sequences, FiniteSets, TLC

VARIABLES heap, image, buttonsConfig, buttons, outputs,
          call, emitted, thrown, logged, returned

vars == <<heap, image, buttonsConfig, buttons, outputs,
          call, emitted, thrown, logged, returned>>

undefined == "undefined"

\* ------------------------------------------------------------------ bounds
\* longest `buttons` array the host supplies with strategy CUSTOM
MaxCustom == 2
\* largest index argument the template passes to onEvent / trackById
MaxIndex == 1
\* most output fields that lose their EventEmitter
MaxMissing == 1

\* ---------------------------------------------- declarations outside src/
\* ButtonsStrategy (interfaces/buttons-config.interface): every member is
\* truthy (the enum does not use 0).
ButtonsStrategy ==
  [DEFAULT |-> "DEFAULT", SIMPLE |-> "SIMPLE", ADVANCED |-> "ADVANCED",
   FULL |-> "FULL", CUSTOM |-> "CUSTOM"]

\* ButtonType (interfaces/buttons-config.interface)
ButtonType ==
  [REFRESH |-> "REFRESH", DELETE |-> "DELETE", EXTURL |-> "EXTURL",
   DOWNLOAD |-> "DOWNLOAD", CLOSE |-> "CLOSE", CUSTOM |-> "CUSTOM"]

WHITELIST_BUTTON_TYPES ==
  <<ButtonType.REFRESH, ButtonType.DELETE, ButtonType.EXTURL,
    ButtonType.DOWNLOAD, ButtonType.CLOSE, ButtonType.CUSTOM>>

\* utils/user-input.util
NEXT == "NEXT"
NOTHING == "NOTHING"

\* The events a template can pass: no event, a primary mouse click, an
\* Enter key press and an Escape key press.
Events == {undefined, "click", "keydown.Enter", "keydown.Escape"}

\* AccessibleComponent.handleImageEvent: a primary click and Enter / Space
\* are the activation (NEXT); anything else is NOTHING.
handleImageEvent(event) ==
  IF event \in {"click", "keydown.Enter", "keydown.Space"} THEN NEXT ELSE NOTHING

\* --------------------------------------------------------- JS value helpers
Has(o, f) == f \in DOMAIN o

\* o.f: a property the object does not have reads as undefined
Prop(o, f) == IF Has(o, f) THEN o[f] ELSE undefined

\* the number 0 given where a ButtonsStrategy is expected (a falsy value)
ZERO == "0"
\* a number that is no member of ButtonsStrategy
UNRECOGNIZED == "99"
\* a type that is no member of ButtonType
UNKNOWN == "UNKNOWN"

\* !v for the string-valued things the component tests
Falsy(v) == v \in {undefined, ZERO, ""}

Range(s) == {s[i] : i \in 1..Len(s)}

Restrict(f, S) == [x \in S |-> f[x]]

\* --------------------------------------------------------------- references
Channels == {"refresh", "delete", "navigate", "download", "close", "customEmit"}

\* the objects the field initializers create (lines 64-112)
StaticRefs ==
  {"defaultSize", "closeBtn", "downloadBtn", "extUrlBtn", "refreshBtn", "deleteBtn",
   "defaultButtonsDefault", "simpleButtonsDefault", "advancedButtonsDefault",
   "fullButtonsDefault"}

\* the objects the owning container creates: image, buttonsConfig, its
\* buttons array and the buttons in it
HostButtonRef == <<"custom1", "custom2", "custom3", "custom4">>
HostRefs == {"img", "cfg", "cfgButtons"} \cup Range(HostButtonRef)

\* the objects ngOnInit creates: the array of addButtonIds' map and the
\* copies in it; `[]` of initCustomButtons
NewArrayRef == "buttonsArray"
EmptyArrayRef == "emptyArray"
NewButtonRef == <<"btn0", "btn1", "btn2", "btn3", "btn4", "btn5", "btn6">>
ComponentRefs == {NewArrayRef, EmptyArrayRef} \cup Range(NewButtonRef)

\* ------------------------------------------------------ field initializers
defaultSize == [height |-> 30, width |-> 30, unit |-> "px"]

defaultButtonsDefault == <<"closeBtn">>

simpleButtonsDefault == <<"downloadBtn">> \o defaultButtonsDefault

advancedButtonsDefault == <<"extUrlBtn">> \o simpleButtonsDefault

fullButtonsDefault == <<"refreshBtn", "deleteBtn">> \o advancedButtonsDefault

Button(className, type) ==
  [className |-> className, size |-> "defaultSize", type |-> type]

ConstructedHeap ==
  [r \in StaticRefs |->
     CASE r = "defaultSize" -> defaultSize
       [] r = "closeBtn" -> Button("close-image", ButtonType.CLOSE)
       [] r = "downloadBtn" -> Button("download-image", ButtonType.DOWNLOAD)
       [] r = "extUrlBtn" -> Button("ext-url-image", ButtonType.EXTURL)
       [] r = "refreshBtn" -> Button("refresh-image", ButtonType.REFRESH)
       [] r = "deleteBtn" -> Button("delete-image", ButtonType.DELETE)
       [] r = "defaultButtonsDefault" -> [items |-> defaultButtonsDefault]
       [] r = "simpleButtonsDefault" -> [items |-> simpleButtonsDefault]
       [] r = "advancedButtonsDefault" -> [items |-> advancedButtonsDefault]
       [] r = "fullButtonsDefault" -> [items |-> fullButtonsDefault]]

ConstructedOutputs == [c \in Channels |-> c]

\* --------------------------------------------------------------- the methods
NoError == "none"
StrategyError == "ButtonsConfig's strategy is a mandatory field"
ButtonTypeError == "Unknown ButtonType. For custom types use ButtonType.CUSTOM"
DispatchError == "Unknown button's type into ButtonConfig"
TypeError == "TypeError: Cannot read property 'emit' of undefined"

\* addButtonIds without Object.assign: the id is set on the button handed in,
\* and the new array holds that button
addButtonIdsInPlace(h, arr) ==
  LET items == h[arr].items
      stamped == [r \in DOMAIN h |->
                    IF r \in Range(items)
                    THEN ("id" :> ((CHOOSE i \in 1..Len(items) : items[i] = r) - 1))
                           @@ h[r]
                    ELSE h[r]]
  IN [heap |-> (NewArrayRef :> [items |-> items]) @@ stamped,
      result |-> NewArrayRef]

\* addButtonIds (lines 195-201): buttons.map(...) builds a new array of
\* copies, Object.assign({}, val) with id = i.  h is the heap, arr the
\* array's reference; the result is the heap after the call and the
\* reference of the new array.
addButtonIds(h, arr) ==
  LET items == h[arr].items
      n == Len(items)
      copy(i) == ("id" :> (i - 1)) @@ h[items[i]]
      fresh == {NewArrayRef} \cup {NewButtonRef[i] : i \in 1..n}
      made == [r \in fresh |->
                 IF r = NewArrayRef
                 THEN [items |-> [i \in 1..n |-> NewButtonRef[i]]]
                 ELSE copy(CHOOSE i \in 1..n : NewButtonRef[i] = r)]
  IN [heap |-> made @@ h, result |-> NewArrayRef]


\* Array.prototype.find with (x) => x === v: the first element equal to v,
\* undefined when there is none
find(array, v) ==
  IF \E k \in 1..Len(array) : array[k] = v
  THEN array[CHOOSE k \in 1..Len(array) :
                 array[k] = v /\ \A j \in 1..(k - 1) : array[j] # v]
  ELSE undefined

\* initCustomButtons without the copy of this.buttonsConfig: `buttons || []`
\* is assigned to the host's object
initCustomButtonsInPlace(h, cfgRef) ==
  LET absent == Falsy(Prop(h[cfgRef], "buttons"))
      h1 == IF absent
            THEN (EmptyArrayRef :> [items |-> <<>>])
                   @@ (cfgRef :> (("buttons" :> EmptyArrayRef) @@ h[cfgRef]))
                   @@ h
            ELSE h
      items == h1[h1[cfgRef].buttons].items
  IN IF \E i \in 1..Len(items) :
          Falsy(find(WHITELIST_BUTTON_TYPES, Prop(h1[items[i]], "type")))
     THEN [heap |-> h1, thrown |-> ButtonTypeError, result |-> undefined]
     ELSE [heap |-> h1, thrown |-> NoError, result |-> h1[cfgRef].buttons]

\* initCustomButtons that validates the first button only
initCustomButtonsFirstOnly(h, cfgRef) ==
  LET local == h[cfgRef]
      absent == Falsy(Prop(local, "buttons"))
      h1 == IF absent THEN (EmptyArrayRef :> [items |-> <<>>]) @@ h ELSE h
      arr == IF absent THEN EmptyArrayRef ELSE local.buttons
      items == h1[arr].items
  IN IF /\ Len(items) > 0
        /\ Falsy(find(WHITELIST_BUTTON_TYPES, Prop(h1[items[1]], "type")))
     THEN [heap |-> h1, thrown |-> ButtonTypeError, result |-> undefined]
     ELSE [heap |-> h1, thrown |-> NoError, result |-> arr]

\* initCustomButtons (lines 203-217).  The copy of this.buttonsConfig is a
\* local object; `buttons || []` creates an array when the field is absent.
\* The result: the heap after the call, the error thrown (or NoError) and
\* the reference returned.
initCustomButtons(h, cfgRef) ==
  LET local == h[cfgRef]
      absent == Falsy(Prop(local, "buttons"))
      h1 == IF absent THEN (EmptyArrayRef :> [items |-> <<>>]) @@ h ELSE h
      arr == IF absent THEN EmptyArrayRef ELSE local.buttons
      items == h1[arr].items
      isValidBtnType(i) ==
        find(WHITELIST_BUTTON_TYPES, Prop(h1[items[i]], "type"))
  IN IF \E i \in 1..Len(items) : Falsy(isValidBtnType(i))
     THEN [heap |-> h1, thrown |-> ButtonTypeError, result |-> undefined]
     ELSE [heap |-> h1, thrown |-> NoError, result |-> arr]

\* StrategyMissing without the test of the strategy field
StrategyMissingConfigOnly(h, cfgRef) == Falsy(cfgRef)

\* the guard of ngOnInit (line 115)
StrategyMissing(h, cfgRef) ==
  \/ Falsy(cfgRef)
  \/ Falsy(Prop(h[cfgRef], "strategy"))

\* DefaultList with the ADVANCED case taking the list of SIMPLE
DefaultListAdvancedAsSimple(strategy) ==
  CASE strategy = ButtonsStrategy.SIMPLE -> "simpleButtonsDefault"
    [] strategy = ButtonsStrategy.ADVANCED -> "simpleButtonsDefault"
    [] strategy = ButtonsStrategy.FULL -> "fullButtonsDefault"
    [] OTHER -> "defaultButtonsDefault"

\* DefaultList with no default: an unlisted value takes the list of FULL
DefaultListNoFallback(strategy) ==
  CASE strategy = ButtonsStrategy.DEFAULT -> "defaultButtonsDefault"
    [] strategy = ButtonsStrategy.SIMPLE -> "simpleButtonsDefault"
    [] strategy = ButtonsStrategy.ADVANCED -> "advancedButtonsDefault"
    [] OTHER -> "fullButtonsDefault"

\* the switch of ngOnInit (lines 119-136) for the strategies that take a
\* default list: the reference of the array handed to addButtonIds
DefaultList(strategy) ==
  CASE strategy = ButtonsStrategy.SIMPLE -> "simpleButtonsDefault"
    [] strategy = ButtonsStrategy.ADVANCED -> "advancedButtonsDefault"
    [] strategy = ButtonsStrategy.FULL -> "fullButtonsDefault"
    [] OTHER -> "defaultButtonsDefault"

\* ngOnInit (lines 114-137).  h is the heap, b the value of this.buttons,
\* cfgRef the value of this.buttonsConfig; the result is the heap and
\* this.buttons after the call and the error thrown (or NoError).
ngOnInit(h, b, cfgRef) ==
  IF StrategyMissing(h, cfgRef)
  THEN [heap |-> h, buttons |-> b, thrown |-> StrategyError]
  ELSE IF Prop(h[cfgRef], "strategy") = ButtonsStrategy.CUSTOM
  THEN LET c == initCustomButtons(h, cfgRef)
       IN IF c.thrown # NoError
          THEN [heap |-> c.heap, buttons |-> b, thrown |-> c.thrown]
          ELSE LET a == addButtonIds(c.heap, c.result)
               IN [heap |-> a.heap, buttons |-> a.result, thrown |-> NoError]
  ELSE LET a == addButtonIds(h, DefaultList(Prop(h[cfgRef], "strategy")))
       IN [heap |-> a.heap, buttons |-> a.result, thrown |-> NoError]

\* triggerOnMouseAndKeyboard without the test of handleImageEvent's result
triggerOnMouseAndKeyboardAlways(emitter, event, btnSource, btnIndex, data) ==
  IF Falsy(emitter)
  THEN [emitted |-> <<>>, thrown |-> TypeError, logged |-> TRUE]
  ELSE [emitted |-> <<[emitter |-> emitter,
                       value |-> [index |-> btnIndex, button |-> btnSource,
                                  payload |-> data]]>>,
        thrown |-> NoError, logged |-> FALSE]

\* triggerOnMouseAndKeyboard (lines 174-193).  emitter is the value of the
\* output field chosen by onEvent.  The result: the emissions made, the
\* error thrown and whether console.error was called.
triggerOnMouseAndKeyboard(emitter, event, btnSource, btnIndex, data) ==
  LET log == Falsy(emitter)
      dataToEmit == [index |-> btnIndex, button |-> btnSource, payload |-> data]
      result == handleImageEvent(event)
  IN IF result = NEXT
     THEN IF Falsy(emitter)
          THEN [emitted |-> <<>>, thrown |-> TypeError, logged |-> log]
          ELSE [emitted |-> <<[emitter |-> emitter, value |-> dataToEmit]>>,
                thrown |-> NoError, logged |-> log]
     ELSE [emitted |-> <<>>, thrown |-> NoError, logged |-> log]

\* the boolean true, as a payload
true == "true"

Silent == [emitted |-> <<>>, thrown |-> NoError, logged |-> FALSE]

\* EmitterFor with the DELETE case handing over this.refresh
EmitterForDeleteAsRefresh(out, type) ==
  CASE type = ButtonType.REFRESH -> out.refresh
    [] type = ButtonType.DELETE -> out.refresh
    [] type = ButtonType.EXTURL -> out.navigate
    [] type = ButtonType.DOWNLOAD -> out.download
    [] type = ButtonType.CLOSE -> out.close
    [] type = ButtonType.CUSTOM -> out.customEmit

\* the output field each case of onEvent's switch hands to
\* triggerOnMouseAndKeyboard (lines 143-164)
EmitterFor(out, type) ==
  CASE type = ButtonType.REFRESH -> out.refresh
    [] type = ButtonType.DELETE -> out.delete
    [] type = ButtonType.EXTURL -> out.navigate
    [] type = ButtonType.DOWNLOAD -> out.download
    [] type = ButtonType.CLOSE -> out.close
    [] type = ButtonType.CUSTOM -> out.customEmit

\* the guard of the EXTURL case (line 151)
NoExtUrl(h, img) == Falsy(img) \/ Falsy(Prop(h[img], "extUrl"))

\* onEvent without the default case of the switch
onEventNoDefault(h, img, out, button, index, event) ==
  IF Falsy(event) THEN Silent
  ELSE LET type == Prop(h[button], "type") IN
    CASE type = ButtonType.EXTURL ->
           IF NoExtUrl(h, img)
           THEN Silent
           ELSE triggerOnMouseAndKeyboard(EmitterFor(out, type), event, button,
                                          index, h[img].extUrl)
      [] type \in {ButtonType.REFRESH, ButtonType.DELETE, ButtonType.DOWNLOAD,
                   ButtonType.CLOSE, ButtonType.CUSTOM} ->
           triggerOnMouseAndKeyboard(EmitterFor(out, type), event, button,
                                     index, true)
      [] OTHER -> Silent

\* onEvent (lines 139-168).  h is the heap, img the value of this.image,
\* out the output fields.
onEvent(h, img, out, button, index, event) ==
  IF Falsy(event) THEN Silent
  ELSE LET type == Prop(h[button], "type") IN
    CASE type = ButtonType.EXTURL ->
           IF NoExtUrl(h, img)
           THEN Silent
           ELSE triggerOnMouseAndKeyboard(EmitterFor(out, type), event, button,
                                          index, h[img].extUrl)
      [] type \in {ButtonType.REFRESH, ButtonType.DELETE, ButtonType.DOWNLOAD,
                   ButtonType.CLOSE, ButtonType.CUSTOM} ->
           triggerOnMouseAndKeyboard(EmitterFor(out, type), event, button,
                                     index, true)
      [] OTHER ->
           [emitted |-> <<>>, thrown |-> DispatchError, logged |-> FALSE]

\* trackById (lines 170-172)
trackById(h, index, item) ==
  IF Has(h[item], "id") THEN <<h[item].id>> ELSE <<undefined>>


\* ------------------------------------------------------------------- inputs
\* the index arguments
Indices == 0..MaxIndex

\* every button type a host's CUSTOM list can hold: the six members of
\* ButtonType and one that is none of them
AllTypes == Range(WHITELIST_BUTTON_TYPES) \cup {UNKNOWN}

\* the types of the host's buttons while the component is in use
LifecycleTypes == {ButtonType.CUSTOM, UNKNOWN}

\* the strategy values the host gives
Strategies ==
  {ButtonsStrategy.DEFAULT, ButtonsStrategy.SIMPLE, ButtonsStrategy.ADVANCED,
   ButtonsStrategy.FULL, ButtonsStrategy.CUSTOM, UNRECOGNIZED, ZERO}

\* the values the host binds to [buttonsConfig]: nothing, an object without
\* strategy, {strategy}, and {strategy: CUSTOM, buttons} with the buttons'
\* types drawn from T
Configs(T) ==
  {[kind |-> "undefined"], [kind |-> "noStrategy"]}
  \cup {[kind |-> "strategy", strategy |-> s] : s \in Strategies}
  \cup {[kind |-> "custom", types |-> l] :
          l \in UNION {[1..n -> T] : n \in 0..MaxCustom}}

\* the images the host gives: without extUrl, with an empty one, with a URL
Images ==
  {[id |-> 0], [id |-> 0, extUrl |-> ""],
   [id |-> 0, extUrl |-> "https://example.com/x"]}

HostClassName == <<"custom-1", "custom-2", "custom-3", "custom-4">>

\* the host's objects for a `buttons` array of the given types
HostButtons(types) ==
  [r \in {"cfgButtons"} \cup {HostButtonRef[i] : i \in 1..Len(types)} |->
     IF r = "cfgButtons"
     THEN [items |-> [i \in 1..Len(types) |-> HostButtonRef[i]]]
     ELSE LET i == CHOOSE i \in 1..Len(types) : HostButtonRef[i] = r
          IN [className |-> HostClassName[i], size |-> "defaultSize",
              type |-> types[i]]]

\* h without the objects in S
Without(h, S) == Restrict(h, DOMAIN h \ S)

\* the heap once the host has bound cfg to [buttonsConfig]
Bind(h, cfg) ==
  LET h0 == Without(h, HostRefs \ {"img"}) IN
  CASE cfg.kind = "undefined" -> h0
    [] cfg.kind = "noStrategy" ->
         ("cfg" :> [buttons |-> "cfgButtons"]) @@ HostButtons(<<>>) @@ h0
    [] cfg.kind = "strategy" -> ("cfg" :> [strategy |-> cfg.strategy]) @@ h0
    [] cfg.kind = "custom" ->
         ("cfg" :> [strategy |-> ButtonsStrategy.CUSTOM, buttons |-> "cfgButtons"])
           @@ HostButtons(cfg.types) @@ h0

BoundRef(cfg) == IF cfg.kind = "undefined" THEN undefined ELSE "cfg"

\* what this.buttons reaches
Resolved(h, b) == IF b = undefined THEN <<>> ELSE h[b].items

\* h without the component's objects that nothing refers to any more
Collect(h, b) ==
  Without(h, ComponentRefs \ ({b} \cup Range(Resolved(h, b))
                               \cup {Prop(h[r], "buttons") : r \in {"cfg"} \cap DOMAIN h}))

Quiet(op) ==
  /\ call' = [op |-> op]
  /\ emitted' = <<>>
  /\ thrown' = NoError
  /\ logged' = FALSE
  /\ returned' = <<>>

\* ------------------------------------------------------------------ actions
Init ==
  /\ heap = ConstructedHeap
  /\ buttonsConfig = undefined
  /\ image = undefined
  /\ buttons = undefined
  /\ outputs = ConstructedOutputs
  /\ call = [op |-> "constructor"]
  /\ emitted = <<>>
  /\ thrown = NoError
  /\ logged = FALSE
  /\ returned = <<>>

\* what an earlier ngOnInit left, if there was one: nothing, or the list of
\* a default strategy
Earlier == {"none", ButtonsStrategy.SIMPLE, ButtonsStrategy.FULL}

\* the component constructed and [buttonsConfig] bound, ngOnInit about to
\* run: for the first time, or again after the host has bound another
\* configuration
InitResolve ==
  /\ \E e \in Earlier, cfg \in Configs(AllTypes) :
       LET r == IF e = "none"
                THEN [heap |-> ConstructedHeap, buttons |-> undefined]
                ELSE ngOnInit(Bind(ConstructedHeap,
                                   [kind |-> "strategy", strategy |-> e]),
                              undefined, "cfg")
       IN /\ heap = Bind(Collect(r.heap, r.buttons), cfg)
          /\ buttons = r.buttons
          /\ buttonsConfig = BoundRef(cfg)
  /\ image = undefined
  /\ outputs = ConstructedOutputs
  /\ call = [op |-> "setButtonsConfig"]
  /\ emitted = <<>>
  /\ thrown = NoError
  /\ logged = FALSE
  /\ returned = <<>>

\* the component in use, [buttonsConfig] and [image] bound
InitMissing ==
  /\ \E cfg \in Configs(LifecycleTypes) :
       /\ \/ /\ image = undefined
             /\ heap = Bind(ConstructedHeap, cfg)
          \/ \E i \in Images :
               /\ image = "img"
               /\ heap = ("img" :> i) @@ Bind(ConstructedHeap, cfg)
       /\ buttonsConfig = BoundRef(cfg)
  /\ buttons = undefined
  /\ outputs = ConstructedOutputs
  /\ call = [op |-> "setButtonsConfig"]
  /\ emitted = <<>>
  /\ thrown = NoError
  /\ logged = FALSE
  /\ returned = <<>>

\* the owning container binds [image]
SetImage ==
  /\ \/ /\ image' = undefined
        /\ heap' = Without(heap, {"img"})
     \/ \E i \in Images :
          /\ image' = "img"
          /\ heap' = ("img" :> i) @@ heap
  /\ Quiet("setImage")
  /\ UNCHANGED <<buttonsConfig, buttons, outputs>>

\* the owning container binds [buttonsConfig]
SetButtonsConfig ==
  /\ \E cfg \in Configs(LifecycleTypes) :
       /\ buttonsConfig' = BoundRef(cfg)
       /\ heap' = Bind(heap, cfg)
  /\ Quiet("setButtonsConfig")
  /\ UNCHANGED <<image, buttons, outputs>>

NgOnInit ==
  /\ LET r == ngOnInit(heap, buttons, buttonsConfig) IN
       /\ heap' = Collect(r.heap, r.buttons)
       /\ buttons' = r.buttons
       /\ thrown' = r.thrown
  /\ call' = [op |-> "ngOnInit"]
  /\ emitted' = <<>>
  /\ logged' = FALSE
  /\ returned' = <<>>
  /\ UNCHANGED <<image, buttonsConfig, outputs>>

\* the buttons a caller can hand to onEvent: the rendered ones, and the
\* host's own
Callable == Range(Resolved(heap, buttons)) \cup (Range(HostButtonRef) \cap DOMAIN heap)

OnEvent ==
  /\ \E button \in Callable, index \in Indices, event \in Events :
       LET r == onEvent(heap, image, outputs, button, index, event) IN
         /\ call' = [op |-> "onEvent", button |-> button, index |-> index,
                     event |-> event]
         /\ emitted' = r.emitted
         /\ thrown' = r.thrown
         /\ logged' = r.logged
  /\ returned' = <<>>
  /\ UNCHANGED <<heap, image, buttonsConfig, buttons, outputs>>

\* the template's trackBy, called with each rendered button and its index
TrackById ==
  /\ \E i \in 1..Len(Resolved(heap, buttons)) :
       /\ call' = [op |-> "trackById", index |-> i - 1,
                   item |-> Resolved(heap, buttons)[i]]
       /\ returned' = trackById(heap, i - 1, Resolved(heap, buttons)[i])
  /\ emitted' = <<>>
  /\ thrown' = NoError
  /\ logged' = FALSE
  /\ UNCHANGED <<heap, image, buttonsConfig, buttons, outputs>>

\* an output field loses its EventEmitter (the case line 179 tests for)
UnsetOutput ==
  /\ Cardinality({c \in Channels : outputs[c] = undefined}) < MaxMissing
  /\ \E c \in Channels :
       /\ outputs[c] # undefined
       /\ outputs' = [outputs EXCEPT ![c] = undefined]
  /\ Quiet("unsetOutput")
  /\ UNCHANGED <<heap, image, buttonsConfig, buttons>>

Next == SetImage \/ SetButtonsConfig \/ NgOnInit \/ OnEvent \/ TrackById

Spec == Init /\ [][Next]_vars

NextResolve == NgOnInit \/ TrackById

SpecResolve == InitResolve /\ [][NextResolve]_vars

NextMissing == NgOnInit \/ OnEvent \/ UnsetOutput

SpecMissing == InitMissing /\ [][NextMissing]_vars


\* ------------------------------------------------------------------- claims
\* what the state says about the call that led to it
Strategy ==
  IF buttonsConfig = undefined THEN undefined
  ELSE Prop(heap[buttonsConfig], "strategy")

HasStrategyField ==
  buttonsConfig # undefined /\ Has(heap[buttonsConfig], "strategy")

TypesOf(h, items) == [i \in 1..Len(items) |-> h[items[i]].type]

ResolvedTypes == TypesOf(heap, Resolved(heap, buttons))

IsSuffix(s, t) ==
  Len(s) <= Len(t) /\ SubSeq(t, Len(t) - Len(s) + 1, Len(t)) = s

NamedStrategies ==
  {ButtonsStrategy.DEFAULT, ButtonsStrategy.SIMPLE, ButtonsStrategy.ADVANCED,
   ButtonsStrategy.FULL}

\* C1: after ngOnInit with a named strategy, `buttons` holds exactly the
\* types of that strategy, in order: DEFAULT [CLOSE], SIMPLE [DOWNLOAD,
\* CLOSE], ADVANCED [EXTURL, DOWNLOAD, CLOSE], FULL [REFRESH, DELETE, EXTURL,
\* DOWNLOAD, CLOSE]; and each default list is a tail of the next larger one.
C1_NamedStrategyLists ==
  /\ (call.op = "ngOnInit" /\ Strategy \in NamedStrategies) =>
       /\ thrown = NoError
       /\ buttons # undefined
       /\ Strategy = "DEFAULT" => ResolvedTypes = <<"CLOSE">>
       /\ Strategy = "SIMPLE" => ResolvedTypes = <<"DOWNLOAD", "CLOSE">>
       /\ Strategy = "ADVANCED" => ResolvedTypes = <<"EXTURL", "DOWNLOAD", "CLOSE">>
       /\ Strategy = "FULL" =>
            ResolvedTypes = <<"REFRESH", "DELETE", "EXTURL", "DOWNLOAD", "CLOSE">>
  /\ IsSuffix(TypesOf(heap, heap["defaultButtonsDefault"].items),
              TypesOf(heap, heap["simpleButtonsDefault"].items))
  /\ IsSuffix(TypesOf(heap, heap["simpleButtonsDefault"].items),
              TypesOf(heap, heap["advancedButtonsDefault"].items))
  /\ IsSuffix(TypesOf(heap, heap["advancedButtonsDefault"].items),
              TypesOf(heap, heap["fullButtonsDefault"].items))

C1_Witness ==
  /\ call.op = "ngOnInit"
  /\ Strategy = "FULL"
  /\ Len(Resolved(heap, buttons)) = 5
  /\ ResolvedTypes[1] = "REFRESH"

\* C4 as stated: after ngOnInit with a strategy value that is none of
\* SIMPLE, ADVANCED, FULL, CUSTOM, `buttons` holds [CLOSE].
C4_AnyOtherValueGivesClose ==
  (/\ call.op = "ngOnInit"
   /\ HasStrategyField
   /\ Strategy \notin {"SIMPLE", "ADVANCED", "FULL", "CUSTOM"}) =>
     /\ thrown = NoError
     /\ buttons # undefined
     /\ ResolvedTypes = <<"CLOSE">>

\* C4 amended: after ngOnInit with strategy DEFAULT, or with a truthy
\* strategy value that is none of SIMPLE, ADVANCED, FULL, CUSTOM, `buttons`
\* holds [CLOSE]; a falsy value (the number 0) is refused as a missing
\* strategy.
C4_TruthyOtherValueGivesClose ==
  (call.op = "ngOnInit" /\ HasStrategyField) =>
     /\ (Strategy \notin {"SIMPLE", "ADVANCED", "FULL", "CUSTOM"} /\ Strategy # ZERO) =>
          /\ thrown = NoError
          /\ buttons # undefined
          /\ ResolvedTypes = <<"CLOSE">>
     /\ Strategy = ZERO => thrown = StrategyError

C4_Witness ==
  /\ call.op = "ngOnInit"
  /\ Strategy = UNRECOGNIZED
  /\ thrown = NoError
  /\ ResolvedTypes = <<"CLOSE">>

\* C9: ngOnInit with buttonsConfig absent, or without a strategy field,
\* throws the 'strategy is a mandatory field' error, leaves `buttons` and
\* every object as they were, and emits nothing.
C9_MissingStrategyFails ==
  [][(/\ call'.op = "ngOnInit"
      /\ (buttonsConfig = undefined \/ ~Has(heap[buttonsConfig], "strategy"))) =>
        /\ thrown' = StrategyError
        /\ buttons' = buttons
        /\ heap' = heap
        /\ emitted' = <<>>]_vars

C9_Witness ==
  /\ call.op = "ngOnInit"
  /\ thrown = StrategyError
  /\ buttonsConfig # undefined
  /\ ~Has(heap[buttonsConfig], "strategy")
  /\ buttons # undefined


\* the buttons the host supplied with the current configuration
Supplied ==
  IF buttonsConfig = undefined \/ Falsy(Prop(heap[buttonsConfig], "buttons"))
  THEN <<>>
  ELSE heap[heap[buttonsConfig].buttons].items

\* o is a copy of the button b: b's properties with b's values, and an id
IsCopy(o, b) ==
  /\ DOMAIN o = DOMAIN b \cup {"id"}
  /\ \A f \in DOMAIN b \ {"id"} : o[f] = b[f]

\* C5: ngOnInit with strategy CUSTOM.  If a supplied button's type is not
\* in the whitelist, it throws the 'Unknown ButtonType' error and `buttons`
\* and every object stay as they were; if every type is in the whitelist
\* (an absent `buttons` counting as the empty list) it succeeds and
\* `buttons` holds the supplied buttons, each with its properties unchanged,
\* in the same order.
C5_CustomValidation ==
  [][(call'.op = "ngOnInit" /\ Strategy = "CUSTOM") =>
       IF \E i \in 1..Len(Supplied) :
            heap[Supplied[i]].type \notin Range(WHITELIST_BUTTON_TYPES)
       THEN /\ thrown' = ButtonTypeError
            /\ buttons' = buttons
            /\ heap' = heap
       ELSE /\ thrown' = NoError
            /\ buttons' # undefined
            /\ Len(Resolved(heap', buttons')) = Len(Supplied)
            /\ \A i \in 1..Len(Supplied) :
                 IsCopy(heap'[Resolved(heap', buttons')[i]], heap[Supplied[i]])]_vars

C5_Witness ==
  /\ call.op = "ngOnInit"
  /\ Strategy = "CUSTOM"
  /\ thrown = ButtonTypeError
  /\ Len(Supplied) = 2
  /\ heap[Supplied[1]].type = "CUSTOM"
  /\ heap[Supplied[2]].type = UNKNOWN
  /\ Len(Resolved(heap, buttons)) = 5

\* the array ngOnInit hands to addButtonIds: a default list, or the host's
InputItems ==
  CASE Strategy = "SIMPLE" -> heap["simpleButtonsDefault"].items
    [] Strategy = "ADVANCED" -> heap["advancedButtonsDefault"].items
    [] Strategy = "FULL" -> heap["fullButtonsDefault"].items
    [] Strategy = "CUSTOM" -> Supplied
    [] OTHER -> heap["defaultButtonsDefault"].items

\* C6: a successful ngOnInit over a list of N buttons leaves N buttons in
\* `buttons`; the i-th has id i (from 0) and is a new object, none of the
\* input's and none twice, with the properties of the i-th input button;
\* the array is a new one; and every object that existed before the call,
\* the default lists and the host's list and buttons among them, is left
\* as it was.  trackById(i, buttons[i]) returns i.
C6_IdentityAssignment ==
  [][/\ (call'.op = "ngOnInit" /\ thrown' = NoError) =>
          LET out == Resolved(heap', buttons') IN
          /\ Len(out) = Len(InputItems)
          /\ \A i \in 1..Len(out) :
               /\ heap'[out[i]].id = i - 1
               /\ trackById(heap', i - 1, out[i]) = <<i - 1>>
               /\ out[i] \notin Range(InputItems)
               /\ \A j \in 1..Len(out) : i # j => out[i] # out[j]
               /\ IsCopy(heap'[out[i]], heap[InputItems[i]])
          /\ buttons' \notin (DOMAIN heap \ ComponentRefs)
          /\ \A r \in DOMAIN heap \ ComponentRefs :
               r \in DOMAIN heap' /\ heap'[r] = heap[r]
     /\ call'.op = "trackById" => returned' = <<call'.index>>]_vars

C6_Witness ==
  /\ call.op = "trackById"
  /\ call.index = 1
  /\ returned = <<1>>
  /\ Strategy = "CUSTOM"
  /\ heap[call.item].className = "custom-2"
  /\ heap[call.item].type = "EXTURL"


\* the type of the button handed to onEvent
CalledType == Prop(heap[call.button], "type")

\* the event is there and is classified as activation
Activation(event) == event # undefined /\ handleImageEvent(event) = NEXT

\* the image is there, with a non-empty extUrl
UsableUrl ==
  /\ image # undefined
  /\ Has(heap[image], "extUrl")
  /\ heap[image].extUrl # ""

ChannelOf(type) ==
  CASE type = "REFRESH" -> "refresh"
    [] type = "DELETE" -> "delete"
    [] type = "DOWNLOAD" -> "download"
    [] type = "CLOSE" -> "close"
    [] type = "CUSTOM" -> "customEmit"
    [] type = "EXTURL" -> "navigate"

Recognized == {"REFRESH", "DELETE", "DOWNLOAD", "CLOSE", "CUSTOM", "EXTURL"}

\* C2: onEvent with an activation event, for a button of a recognized type
\* (for EXTURL: with a usable URL), makes exactly one emission, on the
\* channel of the type, of {index: the index argument, button: the button
\* argument, payload: true, or the image's extUrl for EXTURL}, and throws
\* nothing.
C2_ExactlyOneEmission ==
  (/\ call.op = "onEvent"
   /\ Activation(call.event)
   /\ CalledType \in Recognized
   /\ CalledType = "EXTURL" => UsableUrl) =>
     /\ thrown = NoError
     /\ emitted =
          <<[emitter |-> ChannelOf(CalledType),
             value |-> [index |-> call.index, button |-> call.button,
                        payload |-> IF CalledType = "EXTURL"
                                    THEN heap[image].extUrl ELSE true]]>>

C2_Witness ==
  /\ call.op = "onEvent"
  /\ call.event = "keydown.Enter"
  /\ call.index = 1
  /\ CalledType = "DELETE"
  /\ Len(emitted) = 1
  /\ emitted[1].emitter = "delete"

\* the call reached triggerOnMouseAndKeyboard with an output field that
\* holds no EventEmitter
SelectedMissing ==
  /\ call.op = "onEvent"
  /\ call.event # undefined
  /\ CalledType \in Recognized
  /\ CalledType = "EXTURL" => UsableUrl
  /\ outputs[ChannelOf(CalledType)] = undefined

\* C3: when the output field selected for the button holds no emitter,
\* onEvent logs a diagnostic, emits nothing and throws nothing, whatever
\* the event.
C3_MissingEmitterIsSilent ==
  SelectedMissing => (logged /\ emitted = <<>> /\ thrown = NoError)

\* C7: an onEvent call emits only if the event is there, is classified as
\* activation and, for an EXTURL button, the image has a usable URL; with
\* no event, or for an EXTURL button without a usable URL, the call emits
\* nothing and throws nothing.
C7_EmissionsJustified ==
  call.op = "onEvent" =>
    /\ emitted # <<>> =>
         /\ Activation(call.event)
         /\ CalledType = "EXTURL" => UsableUrl
    /\ (call.event = undefined \/ (CalledType = "EXTURL" /\ ~UsableUrl)) =>
         (emitted = <<>> /\ thrown = NoError)

C7_Witness ==
  /\ call.op = "onEvent"
  /\ call.event = "click"
  /\ CalledType = "EXTURL"
  /\ image # undefined
  /\ Prop(heap[image], "extUrl") = ""
  /\ emitted = <<>>
  /\ thrown = NoError

\* C8: onEvent with an event, for a button whose type is none of the six,
\* throws the 'Unknown button's type' error and emits nothing, whether the
\* event is an activation or not.
C8_UnknownTypeFails ==
  (/\ call.op = "onEvent"
   /\ call.event # undefined
   /\ CalledType \notin Recognized) =>
     (thrown = DispatchError /\ emitted = <<>>)

C8_Witness ==
  /\ call.op = "onEvent"
  /\ call.event = "keydown.Escape"
  /\ CalledType = UNKNOWN
  /\ thrown = DispatchError

\* the objects `buttons` reaches
ResolvedRefs ==
  IF buttons = undefined THEN {}
  ELSE {buttons} \cup Range(Resolved(heap, buttons))

\* C10: once `buttons` is resolved, every step but ngOnInit (onEvent,
\* trackById, the host binding another buttonsConfig or image) leaves the
\* field, the array and the buttons in it as they are; and ngOnInit, onEvent
\* and trackById leave the bound buttonsConfig and image, and every object
\* of the host, as they are.
C10_ResolvedListIsStable ==
  [][/\ (buttons # undefined /\ call'.op # "ngOnInit") =>
          /\ buttons' = buttons
          /\ \A r \in ResolvedRefs : r \in DOMAIN heap' /\ heap'[r] = heap[r]
     /\ call'.op \in {"ngOnInit", "onEvent", "trackById"} =>
          /\ buttonsConfig' = buttonsConfig
          /\ image' = image
          /\ \A r \in DOMAIN heap \cap HostRefs :
               r \in DOMAIN heap' /\ heap'[r] = heap[r]]_vars

C10_Witness ==
  /\ call.op = "onEvent"
  /\ Len(emitted) = 1
  /\ buttonsConfig = undefined
  /\ image = undefined
  /\ Len(Resolved(heap, buttons)) = 5

====
